---- MODULE Spec2Model ----
(***************************************************************************)
(* A model of the YouTube-to-MP3 backend: the task registry                *)
(* (app/services/task_manager.py), the media acquisition workflows         *)
(* (app/services/youtube_service.py), the HTTP handlers and the scheduled  *)
(* file cleanup (app/api/routes.py), with the helpers they call            *)
(* (app/utils/helpers.py, app/utils/validators.py).                        *)
(*                                                                         *)
(* Execution model.  All coroutines run on one asyncio event loop, so the  *)
(* code between two suspension points is one atomic action.  The registry  *)
(* lock is never held across an await, hence never contended: every        *)
(* registry call completes without suspending.  Real suspension points are *)
(* the awaits of asyncio.to_thread (a worker thread runs the external      *)
(* engine), asyncio.sleep, and the hand-over from a request handler to its *)
(* background task.  Worker threads talk to the loop only through the      *)
(* loop's thread-safe FIFO of callbacks.  A workflow has at most one       *)
(* engine call in a thread at a time, and callbacks of different workflows *)
(* come from different threads whose relative timing is arbitrary, so the  *)
(* model keeps the FIFO order per task (loopq[t]): every order in which    *)
(* the loop can run callbacks of different tasks is an order in which      *)
(* their threads can have handed them over.                                *)
(*                                                                         *)
(* Progress values are floats in the code; the model keeps them in tenths  *)
(* of a percent (100.0 is 1000), which is exact for 10 + percent * 0.7     *)
(* with whole percents.                                                    *)
(***************************************************************************)
EXTENDS Integers, Sequences, FiniteSets, TLC

\* ------------------------------------------------------------------ bounds
\* Tasks created in one run (accepted POST download / download-playlist).
MaxTasks == 2
\* POST info requests whose engine call is running at one time.
MaxInfoReqs == 1
\* cleanup_file background tasks pending at one time.
MaxCleanups == 1
\* Longest selection a download-playlist request carries.
MaxSel == 2
\* Progress-hook events the engine emits during one download call.
MaxHookEvents == 2
\* Characters of a title passed to sanitize_filename on its own, after the
\* padding of a long title.
MaxTitleLen == 2
\* Query parameters of a URL passed to the validators on their own.
MaxParams == 2
\* Entries of the download directory when cleanup_old_files sweeps it.
MaxEntries == 2

\* --------------------------------------------------------------- constants
\* ThreadPoolExecutor(max_workers=1): the service's own executor.
executor_max_workers == 1
\* filename[:200]
FILENAME_MAX == 200
\* background_tasks.add_task(cleanup_file, file_path, 10)
DOWNLOAD_FILE_DELAY == 10
\* background_tasks.add_task(cleanup_file, file_path, 30)
DOWNLOAD_SINGLE_DELAY == 30
\* abs(percent - last_percent[0]) >= 5
PERCENT_STEP == 5
\* settings.FILE_RETENTION_HOURS
FILE_RETENTION_HOURS == 1

\* ----------------------------------------------------------------- options
\* Python's None / a present value, for optional arguments and results.
None == <<>>
Some(v) == <<v>>
IsSome(o) == o # <<>>
Val(o) == o[1]

Min(a, b) == IF a < b THEN a ELSE b
Abs(x) == IF x < 0 THEN -x ELSE x

\* ------------------------------------------------------- sanitize_filename
\* A string is a sequence of characters; a character is named by a string.
\* invalid_chars = '<>:"/\\|?*'
\* "e_acute" is U+00E9, "comb_acute" is U+0301, "cjk" stands for a character
\* with no decomposition and no ASCII form, "fi_lig" is U+FB01, "nbsp" is
\* U+00A0, "tab" is U+0009.
InvalidChars == {"<", ">", ":", "\"", "/", "\\", "|", "?", "*"}
AsciiChars == {"a", "b", "e", "f", "i", "_", ".", " ", "tab"} \cup InvalidChars
NonAsciiChars == {"e_acute", "comb_acute", "cjk", "fi_lig", "nbsp"}

\* unicodedata.normalize('NFKD', c) of one character
NFKDChar(c) ==
    CASE c = "e_acute" -> <<"e", "comb_acute">>
      [] c = "fi_lig"  -> <<"f", "i">>
      [] c = "nbsp"    -> <<" ">>
      [] OTHER         -> <<c>>

\* normalize('NFKD', s): the decompositions of the characters of s, in order
\* (computed by halves)
RECURSIVE NFKD(_)
NFKD(s) ==
    IF s = <<>> THEN <<>>
    ELSE IF Len(s) = 1 THEN NFKDChar(s[1])
    ELSE LET h == Len(s) \div 2
         IN  NFKD(SubSeq(s, 1, h)) \o NFKD(SubSeq(s, h + 1, Len(s)))

\* s.encode('ascii', 'ignore').decode('ascii')
AsciiIgnore(s) == SelectSeq(s, LAMBDA c : c \in AsciiChars)

\* for char in invalid_chars: filename = filename.replace(char, '_')
ReplaceInvalid(s) == [i \in 1..Len(s) |-> IF s[i] \in InvalidChars THEN "_" ELSE s[i]]

\* str.split() with no argument splits on runs of ASCII whitespace
IsSpace(c) == c \in {" ", "tab"}

\* The positions of the characters of s that are not whitespace.
NonSpaceAt(s) == {i \in 1..Len(s) : ~IsSpace(s[i])}

\* s.lstrip()
LStrip(s) ==
    IF NonSpaceAt(s) = {} THEN <<>>
    ELSE SubSeq(s, CHOOSE i \in NonSpaceAt(s) : \A j \in NonSpaceAt(s) : i <= j, Len(s))

\* s.rstrip()
RStrip(s) ==
    IF NonSpaceAt(s) = {} THEN <<>>
    ELSE SubSeq(s, 1, CHOOSE i \in NonSpaceAt(s) : \A j \in NonSpaceAt(s) : i >= j)

\* s.strip()
Strip(s) == RStrip(LStrip(s))

\* The characters lo..hi of s with every run of whitespace that follows a word
\* turned into one space and the other whitespace dropped (computed by halves).
RECURSIVE JoinWords(_, _, _)
JoinWords(s, lo, hi) ==
    IF lo > hi THEN <<>>
    ELSE IF lo = hi
         THEN IF ~IsSpace(s[lo]) THEN <<s[lo]>>
              ELSE IF lo > 1 /\ ~IsSpace(s[lo - 1]) THEN <<" ">> ELSE <<>>
         ELSE LET mid == (lo + hi) \div 2
              IN  JoinWords(s, lo, mid) \o JoinWords(s, mid + 1, hi)

\* ' '.join(filename.split()): runs of whitespace become one space, the ends
\* are trimmed
CollapseSpaces(s) == RStrip(JoinWords(s, 1, Len(s)))

JoinSplit(s) == CollapseSpaces(LStrip(s))

\* sanitize_filename that returns filename[:200] without the final strip()
sanitize_filename_no_strip(filename) ==
    LET normalized == AsciiIgnore(NFKD(filename))
        replaced   == ReplaceInvalid(normalized)
        joined     == JoinSplit(replaced)
    IN  SubSeq(joined, 1, Min(Len(joined), FILENAME_MAX))

\* Each assignment of the function body is a value computed once from the one
\* before it.
sanitize_filename(filename) ==
    CHOOSE result \in
        {Strip(SubSeq(joined, 1, Min(Len(joined), FILENAME_MAX))) :
            joined \in {JoinSplit(replaced) :
                replaced \in {ReplaceInvalid(normalized) :
                    normalized \in {AsciiIgnore(nfkd) :
                        nfkd \in {NFKD(filename)}}}}} : TRUE

\* -------------------------------------------------------------- validators
\* A URL is a sequence of tokens; a token is a run of characters none of which
\* is a terminator of the capture group [^&\n?#]+, or one terminator.  The
\* tokens are chosen so that a pattern matches only at token boundaries.
Terminators == {"&", "nl", "?", "#"}

\* ([^&\n?#]+) at the head of s: the longest run of non-terminators
RECURSIVE TakeRun(_)
TakeRun(s) ==
    IF s = <<>> \/ Head(s) \in Terminators THEN <<>>
    ELSE <<Head(s)>> \o TakeRun(Tail(s))

\* the literal prefix pat, then a non-empty capture, at position i of url
MatchAt(url, i, pat) ==
    /\ i + Len(pat) - 1 <= Len(url)
    /\ SubSeq(url, i, i + Len(pat) - 1) = pat
    /\ TakeRun(SubSeq(url, i + Len(pat), Len(url))) # <<>>

\* re.search of (?:alts[1]|alts[2]|...)([^&\n?#]+): group 1 of the leftmost
\* match, the alternatives tried in order there
re_search(alts, url) ==
    LET hits == {i \in 1..Len(url) : \E k \in 1..Len(alts) : MatchAt(url, i, alts[k])}
    IN  IF hits = {} THEN None
        ELSE LET i == CHOOSE x \in hits : \A y \in hits : x <= y
                 k == CHOOSE x \in 1..Len(alts) :
                          /\ MatchAt(url, i, alts[x])
                          /\ \A y \in 1..(x - 1) : ~MatchAt(url, i, alts[y])
             IN  Some(TakeRun(SubSeq(url, i + Len(alts[k]), Len(url))))

VideoPatterns ==
    << << <<"youtube.com/watch", "?", "v=">>, <<"youtu.be/">> >>,
       << <<"youtube.com/embed/">> >>,
       << <<"youtube.com/v/">> >> >>

RECURSIVE FirstMatch(_, _)
FirstMatch(patterns, url) ==
    IF patterns = <<>> THEN None
    ELSE IF IsSome(re_search(Head(patterns), url))
         THEN re_search(Head(patterns), url)
         ELSE FirstMatch(Tail(patterns), url)

extract_video_id(url) == FirstMatch(VideoPatterns, url)

extract_playlist_id(url) == re_search(<< <<"list=">> >>, url)

\* is_valid_youtube_url with "and" in the place of "or"
is_valid_youtube_url_requires_both(url) ==
    IsSome(extract_video_id(url)) /\ IsSome(extract_playlist_id(url))

\* bool(a or b): a captured group is a non-empty string, hence truthy
is_valid_youtube_url(url) ==
    IsSome(extract_video_id(url)) \/ IsSome(extract_playlist_id(url))

\* "list=" in url
HasListMarker(url) == \E i \in 1..Len(url) : url[i] = "list="

\* ------------------------------------------------------------------ inputs
UrlVideo == <<"https://www.", "youtube.com/watch", "?", "v=", "abc123">>
UrlList  == <<"https://www.", "youtube.com/playlist", "?", "list=", "PL123">>
UrlBad   == <<"https://", "example.com/">>
Urls == {UrlVideo, UrlList, UrlBad}
\* The URLs of POST download requests.
DownloadUrls == {UrlVideo, UrlBad}

\* A DownloadRequest body: is_playlist is False when the client leaves it out
DownloadRequest(url, is_playlist) == [url |-> url, is_playlist |-> is_playlist]
DownloadRequests(urls) == {DownloadRequest(url, ip) : url \in urls, ip \in BOOLEAN}

VideoIds == {"abc123", "xyz789"}

\* f"https://www.youtube.com/watch?v={video_id}"
WatchUrl(video_id) == <<"https://www.", "youtube.com/watch", "?", "v=", video_id>>

\* The selections of a PlaylistRequest: the sequences over VideoIds of length
\* 0..MaxSel (pydantic accepts an empty list, and repeated identifiers).
Selections == UNION {[1..n -> VideoIds] : n \in 0..MaxSel}

\* The title the external engine reports for what a URL names.  Two of the
\* three titles sanitize to the same filename.
EngineTitle(url) ==
    LET id == IF IsSome(extract_video_id(url)) THEN Val(extract_video_id(url))
              ELSE Val(extract_playlist_id(url))
    IN  CASE id = <<"abc123">> -> <<"a", ":">>
          [] id = <<"xyz789">> -> <<"b", "e_acute">>
          [] OTHER             -> <<"a", "_">>

\* The percents the engine may report.  From 0 the first is below the step
\* and the second above it, and the two are exactly the step apart.
Percents == {3, 8}

\* The text of a percent as the engine formats it, less the padding and "%"
PercentText(p) == CASE p = 3 -> "3.0" [] p = 8 -> "8.0"

\* _percent_str values the engine may report, as sequences of pieces: a
\* padded number with "%", or the same wrapped in terminal colour codes
PercentStrs ==
    {<<" ", PercentText(p), "%">> : p \in Percents}
        \cup {<<"esc[0;94m", " ", PercentText(3), "%", "esc[0m">>}

\* percent_str.strip('%')
StripPercent(s) ==
    LET keep == {i \in 1..Len(s) : s[i] # "%"} IN
    IF keep = {} THEN <<>>
    ELSE SubSeq(s, CHOOSE i \in keep : \A j \in keep : i <= j,
                   CHOOSE i \in keep : \A j \in keep : i >= j)

\* float(percent_str): the number, surrounding whitespace allowed, or None
\* where float() raises ValueError
ParseFloat(percent_str) ==
    LET t == Strip(percent_str) IN
    IF Len(t) = 1 /\ \E p \in Percents : t[1] = PercentText(p)
    THEN Some(CHOOSE p \in Percents : t[1] = PercentText(p))
    ELSE None

\* ---------------------------------------------------------------- registry
VARIABLES
    tasks,      \* TaskManager.tasks: task id -> record
    nextId,     \* task ids handed out so far (uuid4: every id is fresh)
    wf,         \* task id -> the state of its background workflow coroutine
    running,    \* task ids whose workflow has an engine call in a worker thread
    infoReqs,   \* POST info requests whose engine call is in a worker thread
    loopq,      \* task id -> the callbacks its worker thread handed to the loop, oldest first
    disk,       \* paths of the files in the download directory
    cleanups,   \* cleanup_file background tasks that have not finished
    call        \* a function called on its own, outside the handlers: the
                \* function, its arguments and its result

vars == <<tasks, nextId, wf, running, infoReqs, loopq, disk, cleanups, call>>

PENDING == "pending"
PROCESSING == "processing"
COMPLETED == "completed"
FAILED == "failed"

\* A message: its text, with the numbers an f-string puts into it.
Msg(text, a, b) == [text |-> text, a |-> a, b |-> b]

\* The record create_task inserts.
NewTask(total_videos) ==
    [status |-> PENDING, progress |-> 0, message |-> Msg("Task created", 0, 0),
     total_videos |-> total_videos, completed_videos |-> 0, file_paths |-> <<>>]

\* create_task: the registry with the new record under the fresh id
create_task(reg, task_id, total_videos) ==
    [t \in DOMAIN reg \cup {task_id} |->
        IF t = task_id THEN NewTask(total_videos) ELSE reg[t]]

\* The keyword arguments of update_task, each None unless passed.
NoUpdate ==
    [status |-> None, progress |-> None, message |-> None,
     completed_videos |-> None, file_path |-> None]

\* update_task with the completed count added to the stored one instead of
\* replacing it
update_task_adds_completed(reg, task_id, u) ==
    IF task_id \notin DOMAIN reg THEN reg
    ELSE [reg EXCEPT ![task_id] = [@ EXCEPT
            !.status = IF IsSome(u.status) THEN Val(u.status) ELSE @,
            !.progress = IF IsSome(u.progress) THEN Val(u.progress) ELSE @,
            !.message = IF IsSome(u.message) /\ Val(u.message).text # ""
                        THEN Val(u.message) ELSE @,
            !.completed_videos = IF IsSome(u.completed_videos)
                                 THEN @ + Val(u.completed_videos) ELSE @,
            !.file_paths = IF IsSome(u.file_path) /\ Val(u.file_path) # <<>>
                           THEN Append(@, Val(u.file_path)) ELSE @]]

\* update_task without the test "task_id not in self.tasks": an update of an
\* id the registry does not hold stores a record under it
update_task_upserts(reg, task_id, u) ==
    LET base == IF task_id \in DOMAIN reg THEN reg
                ELSE [t \in DOMAIN reg \cup {task_id} |->
                        IF t = task_id THEN NewTask(0) ELSE reg[t]]
    IN  [base EXCEPT ![task_id] = [@ EXCEPT
            !.status = IF IsSome(u.status) THEN Val(u.status) ELSE @,
            !.progress = IF IsSome(u.progress) THEN Val(u.progress) ELSE @,
            !.message = IF IsSome(u.message) /\ Val(u.message).text # ""
                        THEN Val(u.message) ELSE @,
            !.completed_videos = IF IsSome(u.completed_videos)
                                 THEN Val(u.completed_videos) ELSE @,
            !.file_paths = IF IsSome(u.file_path) /\ Val(u.file_path) # <<>>
                           THEN Append(@, Val(u.file_path)) ELSE @]]

\* update_task that keeps one progress for the whole registry: a passed
\* progress is stored in every record
update_task_shared_progress(reg, task_id, u) ==
    IF task_id \notin DOMAIN reg THEN reg
    ELSE [t \in DOMAIN reg |->
            IF t = task_id
            THEN [reg[t] EXCEPT
                    !.status = IF IsSome(u.status) THEN Val(u.status) ELSE @,
                    !.progress = IF IsSome(u.progress) THEN Val(u.progress) ELSE @,
                    !.message = IF IsSome(u.message) /\ Val(u.message).text # ""
                                THEN Val(u.message) ELSE @,
                    !.completed_videos = IF IsSome(u.completed_videos)
                                         THEN Val(u.completed_videos) ELSE @,
                    !.file_paths = IF IsSome(u.file_path) /\ Val(u.file_path) # <<>>
                                   THEN Append(@, Val(u.file_path)) ELSE @]
            ELSE [reg[t] EXCEPT
                    !.progress = IF IsSome(u.progress) THEN Val(u.progress) ELSE @]]

\* update_task: the registry after the call
update_task(reg, task_id, u) ==
    IF task_id \notin DOMAIN reg THEN reg
    ELSE LET old == reg[task_id]
             new == [old EXCEPT
                 \* if status:  (a TaskStatus is a non-empty string)
                 !.status = IF IsSome(u.status) THEN Val(u.status) ELSE @,
                 \* if progress is not None:
                 !.progress = IF IsSome(u.progress) THEN Val(u.progress) ELSE @,
                 \* if message:  (an empty string is falsy)
                 !.message = IF IsSome(u.message) /\ Val(u.message).text # ""
                             THEN Val(u.message) ELSE @,
                 \* if completed_videos is not None:
                 !.completed_videos = IF IsSome(u.completed_videos)
                                      THEN Val(u.completed_videos) ELSE @,
                 \* if file_path:  (an empty string is falsy)
                 !.file_paths = IF IsSome(u.file_path) /\ Val(u.file_path) # <<>>
                                THEN Append(@, Val(u.file_path)) ELSE @]
         IN  [reg EXCEPT ![task_id] = new]

\* get_task that answers for an unknown id with the defaults of a new record
get_task_unknown_pending(reg, task_id) ==
    IF task_id \notin DOMAIN reg
    THEN [task_id |-> task_id, status |-> PENDING, message |-> Msg("Task created", 0, 0),
          progress |-> 0, total_videos |-> 0, completed_videos |-> 0]
    ELSE [task_id |-> task_id, status |-> reg[task_id].status,
          message |-> reg[task_id].message, progress |-> reg[task_id].progress,
          total_videos |-> reg[task_id].total_videos,
          completed_videos |-> reg[task_id].completed_videos]

\* get_task: the TaskResponse projection
get_task(reg, task_id) ==
    IF task_id \notin DOMAIN reg
    THEN [task_id |-> task_id, status |-> FAILED, message |-> Msg("Task not found", 0, 0),
          progress |-> 0, total_videos |-> 0, completed_videos |-> 0]
    ELSE [task_id |-> task_id, status |-> reg[task_id].status,
          message |-> reg[task_id].message, progress |-> reg[task_id].progress,
          total_videos |-> reg[task_id].total_videos,
          completed_videos |-> reg[task_id].completed_videos]

\* get_task_files
get_task_files(reg, task_id) ==
    IF task_id \notin DOMAIN reg THEN <<>> ELSE reg[task_id].file_paths

\* cleanup_task: the registry without the record of task_id
cleanup_task(reg, task_id) == [t \in DOMAIN reg \ {task_id} |-> reg[t]]

\* download_dir / f"{filename}.{settings.AUDIO_FORMAT}"
FinalFile(filename) == <<"downloads/">> \o filename \o <<".mp3">>

\* --------------------------------------------------------------- workflows
\* The state of one background workflow coroutine (download_single_video or
\* download_playlist): where it is suspended (pc) and its local variables.
\*   pc: "scheduled"  added to BackgroundTasks, not started
\*       "info"       awaiting get_video_info (asyncio.to_thread)
\*       "download"   awaiting ydl.download (asyncio.to_thread)
\*       "sleep"      awaiting asyncio.sleep(0.5)
\*       "done"       returned
\* produced records, per playlist item handled so far, whether its output
\* file was found (a history of the loop, kept for the properties).
NewWorkflow(kind, url, video_ids) ==
    [kind |-> kind, pc |-> "scheduled", url |-> url, video_ids |-> video_ids,
     idx |-> 0, completed |-> 0, filename |-> <<>>, last_percent |-> 0,
     hooks |-> 0, produced |-> <<>>]

\* A callback a worker thread hands to the loop: a registry update scheduled
\* by run_coroutine_threadsafe, or the completion of a to_thread call.
UpdateItem(task_id, u) ==
    [type |-> "update", task |-> task_id, update |-> u, result |-> "", title |-> <<>>]
WakeItem(task_id, result, title) ==
    [type |-> "wake", task |-> task_id, update |-> NoUpdate, result |-> result,
     title |-> title]

\* A worker thread of task t hands a callback to the loop.
Push(t, item) == [loopq EXCEPT ![t] = Append(@, item)]

\* The URL the current engine call of a workflow is about.
CurrentUrl(w) ==
    IF w.kind = "single" THEN w.url ELSE WatchUrl(w.video_ids[w.idx + 1])

\* No function has been called on its own.
NoCall == [fn |-> "", arg |-> None, ret |-> None]

\* The application after startup: no task, no request, no file.
Started ==
    /\ tasks = <<>>
    /\ nextId = 0
    /\ wf = <<>>
    /\ running = {}
    /\ infoReqs = {}
    /\ loopq = <<>>
    /\ disk = {}
    /\ cleanups = {}

Init == call = NoCall /\ Started

\* An HTTP response.  file: the path streamed; links: the file indexes of the
\* download links of an HTML listing; sched: the delay of the cleanup_file
\* task added to BackgroundTasks; proj: a TaskResponse body.
Response(ep, code, detail, task_id) ==
    [ep |-> ep, code |-> code, detail |-> detail, task |-> task_id, index |-> 0,
     media_type |-> "application/json", file |-> None, links |-> <<>>,
     sched |-> None, proj |-> None]

\* ---- POST /api/download: the response
download_video_response(reg, request, task_id) ==
    LET url == request.url IN
    IF ~is_valid_youtube_url(url)
    THEN Response("download", 400, "Invalid YouTube URL", 0)
    ELSE [Response("download", 200, "", task_id)
             EXCEPT !.proj = Some(get_task(create_task(reg, task_id, 1), task_id))]

\* download_video that awaits the start of the workflow instead of adding it
\* to BackgroundTasks: the first update is made before the projection is read
download_video_starts_workflow(request) ==
    LET task_id == nextId + 1
        url == request.url IN
    /\ is_valid_youtube_url(url)
    /\ nextId' = task_id
    /\ tasks' = update_task(create_task(tasks, task_id, 1), task_id,
            [NoUpdate EXCEPT !.status = Some(PROCESSING),
                             !.message = Some(Msg("Fetching video information...", 0, 0)),
                             !.progress = Some(100)])
    /\ wf' = [t \in DOMAIN wf \cup {task_id} |->
                IF t = task_id THEN [NewWorkflow("single", url, <<>>) EXCEPT !.pc = "info"]
                ELSE wf[t]]
    /\ loopq' = [t \in DOMAIN loopq \cup {task_id} |->
                   IF t = task_id THEN <<>> ELSE loopq[t]]
    /\ running' = running \cup {task_id}
    /\ UNCHANGED <<infoReqs, disk, cleanups, call>>

\* ---- POST /api/download.  An invalid URL raises HTTPException before
\* anything is changed.
download_video(request) ==
    LET task_id == nextId + 1
        url == request.url IN
    /\ is_valid_youtube_url(url)
    /\ nextId' = task_id
    /\ tasks' = create_task(tasks, task_id, 1)
    /\ wf' = [t \in DOMAIN wf \cup {task_id} |->
                IF t = task_id THEN NewWorkflow("single", url, <<>>) ELSE wf[t]]
    /\ loopq' = [t \in DOMAIN loopq \cup {task_id} |->
                   IF t = task_id THEN <<>> ELSE loopq[t]]
    /\ UNCHANGED <<running, infoReqs, disk, cleanups, call>>

\* ---- POST /api/download-playlist: the response
download_playlist_response(reg, video_ids, task_id) ==
    IF video_ids = <<>>
    THEN Response("download-playlist", 400, "No videos selected", 0)
    ELSE [Response("download-playlist", 200, "", task_id)
             EXCEPT !.proj =
                Some(get_task(create_task(reg, task_id, Len(video_ids)), task_id))]

\* ---- POST /api/download-playlist.  An empty selection raises HTTPException
\* before anything is changed.
download_playlist_route(video_ids) ==
    LET task_id == nextId + 1 IN
    /\ video_ids # <<>>
    /\ nextId' = task_id
    /\ tasks' = create_task(tasks, task_id, Len(video_ids))
    /\ wf' = [t \in DOMAIN wf \cup {task_id} |->
                IF t = task_id THEN NewWorkflow("playlist", <<>>, video_ids) ELSE wf[t]]
    /\ loopq' = [t \in DOMAIN loopq \cup {task_id} |->
                   IF t = task_id THEN <<>> ELSE loopq[t]]
    /\ UNCHANGED <<running, infoReqs, disk, cleanups, call>>

\* ---- the steps of a background workflow
SetWf(t, w) == wf' = [wf EXCEPT ![t] = w]

\* The workflow coroutine has returned: its frame, with the local variables,
\* is gone; the history of the loop is kept.
Returned(w) ==
    [NewWorkflow(w.kind, w.url, w.video_ids) EXCEPT !.pc = "done",
                                                    !.produced = w.produced]

\* download_single_video, from its start to the await of get_video_info
single_start(t) ==
    /\ t \in DOMAIN wf
    /\ wf[t].kind = "single" /\ wf[t].pc = "scheduled"
    /\ tasks' = update_task(tasks, t,
            [NoUpdate EXCEPT !.status = Some(PROCESSING),
                             !.message = Some(Msg("Fetching video information...", 0, 0)),
                             !.progress = Some(100)])
    /\ SetWf(t, [wf[t] EXCEPT !.pc = "info"])
    /\ running' = running \cup {t}
    /\ UNCHANGED <<nextId, infoReqs, loopq, disk, cleanups, call>>

\* download_single_video, resumed with the result of get_video_info
single_after_info(t, item) ==
    IF item.result = "none"
    THEN /\ tasks' = update_task(tasks, t,
                [NoUpdate EXCEPT !.status = Some(FAILED),
                    !.message = Some(Msg("Failed to fetch video information", 0, 0))])
         /\ SetWf(t, Returned(wf[t]))
         /\ running' = running
    ELSE /\ tasks' = tasks
         /\ SetWf(t, [wf[t] EXCEPT !.pc = "download",
                                   !.filename = sanitize_filename(item.title),
                                   !.last_percent = 0, !.hooks = 0])
         /\ running' = running \cup {t}

\* single_after_download without the top-level except clause: the error of
\* ydl.download leaves the coroutine and no update is made
single_after_download_error_escapes(t, item) ==
    IF item.result = "raise"
    THEN /\ tasks' = tasks
         /\ SetWf(t, Returned(wf[t]))
         /\ running' = running
    ELSE /\ tasks' = tasks
         /\ SetWf(t, [wf[t] EXCEPT !.pc = "sleep"])
         /\ running' = running

\* download_single_video, resumed when ydl.download returned or raised
single_after_download(t, item) ==
    IF item.result = "raise"
    THEN /\ tasks' = update_task(tasks, t,
                [NoUpdate EXCEPT !.status = Some(FAILED),
                                 !.message = Some(Msg("Error: ", 0, 0))])
         /\ SetWf(t, Returned(wf[t]))
         /\ running' = running
    ELSE /\ tasks' = tasks
         /\ SetWf(t, [wf[t] EXCEPT !.pc = "sleep"])
         /\ running' = running

\* single_after_sleep without the final_file.exists() test: the task is
\* completed with the expected path whether or not the file is there
single_after_sleep_no_exists_test(t) ==
    LET final_file == FinalFile(wf[t].filename) IN
    /\ tasks' = update_task(tasks, t,
                    [status |-> Some(COMPLETED), progress |-> Some(1000),
                     message |-> Some(Msg("Download completed!", 0, 0)),
                     completed_videos |-> Some(1), file_path |-> Some(final_file)])
    /\ SetWf(t, Returned(wf[t]))

\* download_single_video, resumed after asyncio.sleep(0.5)
single_after_sleep(t) ==
    LET final_file == FinalFile(wf[t].filename) IN
    /\ tasks' = IF final_file \in disk
                THEN update_task(tasks, t,
                        [status |-> Some(COMPLETED), progress |-> Some(1000),
                         message |-> Some(Msg("Download completed!", 0, 0)),
                         completed_videos |-> Some(1), file_path |-> Some(final_file)])
                ELSE update_task(tasks, t,
                        [NoUpdate EXCEPT !.status = Some(FAILED),
                            !.message = Some(Msg("File conversion failed", 0, 0))])
    /\ SetWf(t, Returned(wf[t]))

\* download_playlist, from its start to the await of the first get_video_info
playlist_start(t) ==
    /\ t \in DOMAIN wf
    /\ wf[t].kind = "playlist" /\ wf[t].pc = "scheduled"
    /\ tasks' = update_task(tasks, t,
            [NoUpdate EXCEPT !.status = Some(PROCESSING),
                !.message = Some(Msg("Starting download of videos...",
                                     Len(wf[t].video_ids), 0))])
    /\ SetWf(t, [wf[t] EXCEPT !.pc = "info", !.idx = 0, !.completed = 0])
    /\ running' = running \cup {t}
    /\ UNCHANGED <<nextId, infoReqs, loopq, disk, cleanups, call>>

\* PlaylistFinal with the test completed >= 0 instead of completed > 0
PlaylistFinal_zero_completes(reg, t, w) ==
    update_task(reg, t,
        [NoUpdate EXCEPT !.status = Some(COMPLETED),
            !.message = Some(Msg("Completed! Downloaded videos",
                                 w.completed, Len(w.video_ids))),
            !.progress = Some(1000)])

\* The code after the loop of download_playlist.
PlaylistFinal(reg, t, w) ==
    IF w.completed > 0
    THEN update_task(reg, t,
            [NoUpdate EXCEPT !.status = Some(COMPLETED),
                !.message = Some(Msg("Completed! Downloaded videos",
                                     w.completed, Len(w.video_ids))),
                !.progress = Some(1000)])
    ELSE update_task(reg, t,
            [NoUpdate EXCEPT !.status = Some(FAILED),
                !.message = Some(Msg("No videos were downloaded successfully", 0, 0))])

\* playlist_next with the code after the loop indented into the loop: the
\* final update is made at the end of every iteration
playlist_next_final_in_loop(t, reg, w) ==
    IF w.idx + 1 < Len(w.video_ids)
    THEN /\ tasks' = PlaylistFinal(reg, t, w)
         /\ SetWf(t, [w EXCEPT !.idx = @ + 1, !.pc = "info"])
         /\ running' = running \cup {t}
    ELSE /\ tasks' = PlaylistFinal(reg, t, w)
         /\ SetWf(t, Returned(w))
         /\ running' = running

\* download_playlist, from the end of one iteration of the for loop: the next
\* iteration up to its await of get_video_info, or the code after the loop.
\* reg is the registry and w the workflow as the iteration left them.
playlist_next(t, reg, w) ==
    LET total == Len(w.video_ids) IN
    IF w.idx + 1 < total
    THEN /\ tasks' = reg
         /\ SetWf(t, [w EXCEPT !.idx = @ + 1, !.pc = "info"])
         /\ running' = running \cup {t}
    ELSE /\ tasks' = PlaylistFinal(reg, t, w)
         /\ SetWf(t, Returned(w))
         /\ running' = running

\* download_playlist, resumed with the result of get_video_info
playlist_after_info(t, item) ==
    IF item.result = "none"
    THEN playlist_next(t, tasks, [wf[t] EXCEPT !.produced = Append(@, FALSE)])
    ELSE /\ tasks' = update_task(tasks, t,
                [NoUpdate EXCEPT !.message =
                    Some(Msg("Downloading i/N: title", wf[t].idx + 1,
                             Len(wf[t].video_ids)))])
         /\ SetWf(t, [wf[t] EXCEPT !.pc = "download",
                                   !.filename = sanitize_filename(item.title)])
         /\ running' = running \cup {t}

\* playlist_after_download without the try/except of the loop body: the
\* error of an item's download reaches the top-level handler, which ends the
\* workflow
playlist_after_download_no_inner_try(t, item) ==
    IF item.result = "raise"
    THEN /\ tasks' = update_task(tasks, t,
                [NoUpdate EXCEPT !.status = Some(FAILED),
                                 !.message = Some(Msg("Error: ", 0, 0))])
         /\ SetWf(t, Returned([wf[t] EXCEPT !.produced = Append(@, FALSE)]))
         /\ running' = running
    ELSE /\ tasks' = tasks
         /\ SetWf(t, [wf[t] EXCEPT !.pc = "sleep"])
         /\ running' = running

\* download_playlist, resumed when ydl.download returned or raised
playlist_after_download(t, item) ==
    IF item.result = "raise"
    THEN playlist_next(t, tasks, [wf[t] EXCEPT !.produced = Append(@, FALSE)])
    ELSE /\ tasks' = tasks
         /\ SetWf(t, [wf[t] EXCEPT !.pc = "sleep"])
         /\ running' = running

\* playlist_after_sleep that raises the count and the progress in this update
\* and leaves the file path to a later one
playlist_after_sleep_path_later(t) ==
    LET w == wf[t]
        total == Len(w.video_ids)
        final_file == FinalFile(w.filename)
        completed == w.completed + 1
        progress == (completed * 1000) \div total
    IN  IF final_file \in disk
        THEN playlist_next(t,
                update_task(tasks, t,
                    [NoUpdate EXCEPT !.progress = Some(progress),
                                     !.completed_videos = Some(completed)]),
                [w EXCEPT !.completed = completed, !.produced = Append(@, TRUE)])
        ELSE playlist_next(t, tasks, [w EXCEPT !.produced = Append(@, FALSE)])

\* download_playlist, resumed after asyncio.sleep(0.5)
playlist_after_sleep(t) ==
    LET w == wf[t]
        total == Len(w.video_ids)
        final_file == FinalFile(w.filename)
        completed == w.completed + 1
        progress == (completed * 1000) \div total
    IN  IF final_file \in disk
        THEN playlist_next(t,
                update_task(tasks, t,
                    [NoUpdate EXCEPT !.progress = Some(progress),
                                     !.completed_videos = Some(completed),
                                     !.file_path = Some(final_file)]),
                [w EXCEPT !.completed = completed, !.produced = Append(@, TRUE)])
        ELSE playlist_next(t, tasks, [w EXCEPT !.produced = Append(@, FALSE)])

\* The timer of asyncio.sleep(0.5) fires and the workflow goes on.
sleep_done(t) ==
    /\ t \in DOMAIN wf
    /\ wf[t].pc = "sleep"
    /\ IF wf[t].kind = "single"
       THEN single_after_sleep(t) /\ running' = running
       ELSE playlist_after_sleep(t)
    /\ UNCHANGED <<nextId, infoReqs, loopq, disk, cleanups, call>>

\* ---- the worker threads (asyncio.to_thread) and the external engine
\* ydl.extract_info of a workflow's get_video_info returns (ok) or raises;
\* get_video_info turns a raise into None.  The thread hands the completion
\* of the to_thread future to the loop.
extract_info_returns(t, ok) ==
    /\ t \in running
    /\ wf[t].pc = "info"
    /\ running' = running \ {t}
    /\ loopq' = Push(t,
            IF ok THEN WakeItem(t, "info", EngineTitle(CurrentUrl(wf[t])))
            ELSE WakeItem(t, "none", <<>>))
    /\ UNCHANGED <<tasks, nextId, wf, infoReqs, disk, cleanups, call>>

\* The events the engine passes to a progress hook.
HookEvents ==
    {[status |-> "downloading", percent_str |-> ps] : ps \in PercentStrs}
        \cup {[status |-> "finished", percent_str |-> <<>>]}

\* progress_hook that updates only when the change is above the step
progress_hook_above_step(t, d) ==
    LET w == wf[t]
        percent == ParseFloat(StripPercent(d.percent_str))
    IN
    /\ t \in running
    /\ w.kind = "single" /\ w.pc = "download"
    /\ w.hooks < MaxHookEvents
    /\ IF d.status = "downloading"
       THEN IF IsSome(percent) /\ Abs(Val(percent) - w.last_percent) > PERCENT_STEP
            THEN /\ SetWf(t, [w EXCEPT !.hooks = @ + 1, !.last_percent = Val(percent)])
                 /\ loopq' = Push(t, UpdateItem(t,
                        [NoUpdate EXCEPT
                            !.progress = Some(100 + Val(percent) * 7),
                            !.message = Some(Msg("Downloading: %", Val(percent), 0))]))
            ELSE /\ SetWf(t, [w EXCEPT !.hooks = @ + 1])
                 /\ loopq' = loopq
       ELSE /\ SetWf(t, [w EXCEPT !.hooks = @ + 1])
            /\ loopq' = Push(t, UpdateItem(t,
                    [NoUpdate EXCEPT !.progress = Some(800),
                                     !.message = Some(Msg("Converting to MP3...", 0, 0))]))
    /\ UNCHANGED <<tasks, nextId, running, infoReqs, disk, cleanups, call>>

\* progress_hook(d), called by the engine in the worker thread during
\* ydl.download of a single-video workflow
progress_hook(t, d) ==
    LET w == wf[t]
        percent == ParseFloat(StripPercent(d.percent_str))
    IN
    /\ t \in running
    /\ w.kind = "single" /\ w.pc = "download"
    /\ w.hooks < MaxHookEvents
    /\ IF d.status = "downloading"
       THEN IF IsSome(percent) /\ Abs(Val(percent) - w.last_percent) >= PERCENT_STEP
            THEN /\ SetWf(t, [w EXCEPT !.hooks = @ + 1, !.last_percent = Val(percent)])
                 /\ loopq' = Push(t, UpdateItem(t,
                        [NoUpdate EXCEPT
                            !.progress = Some(100 + Val(percent) * 7),
                            !.message = Some(Msg("Downloading: %", Val(percent), 0))]))
            ELSE /\ SetWf(t, [w EXCEPT !.hooks = @ + 1])
                 /\ loopq' = loopq
       ELSE /\ SetWf(t, [w EXCEPT !.hooks = @ + 1])
            /\ loopq' = Push(t, UpdateItem(t,
                    [NoUpdate EXCEPT !.progress = Some(800),
                                     !.message = Some(Msg("Converting to MP3...", 0, 0))]))
    /\ UNCHANGED <<tasks, nextId, running, infoReqs, disk, cleanups, call>>

\* What a ydl.download call does: it leaves the output file and returns, it
\* returns without the file, or it raises.
DownloadOutcomes == {"file", "nofile", "raise"}

\* download_returns whose completion reaches the loop ahead of the callback
\* updates handed over during the download
download_returns_overtakes_updates(t, outcome) ==
    /\ t \in running
    /\ wf[t].pc = "download"
    /\ running' = running \ {t}
    /\ disk' = IF outcome = "file" THEN disk \cup {FinalFile(wf[t].filename)} ELSE disk
    /\ loopq' = [loopq EXCEPT ![t] = <<WakeItem(t, outcome, <<>>)>> \o @]
    /\ UNCHANGED <<tasks, nextId, wf, infoReqs, cleanups, call>>

\* ydl.download([url]) ends in the worker thread
download_returns(t, outcome) ==
    /\ t \in running
    /\ wf[t].pc = "download"
    /\ running' = running \ {t}
    /\ disk' = IF outcome = "file" THEN disk \cup {FinalFile(wf[t].filename)} ELSE disk
    /\ loopq' = Push(t, WakeItem(t, outcome, <<>>))
    /\ UNCHANGED <<tasks, nextId, wf, infoReqs, cleanups, call>>

\* The event loop running the newest callback handed over for task t
loop_step_newest_first(t) ==
    /\ t \in DOMAIN loopq
    /\ loopq[t] # <<>>
    /\ LET item == loopq[t][Len(loopq[t])] IN
           IF item.type = "update"
           THEN /\ tasks' = update_task(tasks, t, item.update)
                /\ UNCHANGED <<wf, running>>
           ELSE IF wf[t].kind = "single"
                THEN IF wf[t].pc = "info"
                     THEN single_after_info(t, item)
                     ELSE single_after_download(t, item)
                ELSE IF wf[t].pc = "info"
                     THEN playlist_after_info(t, item)
                     ELSE playlist_after_download(t, item)
    /\ loopq' = [loopq EXCEPT ![t] = SubSeq(@, 1, Len(@) - 1)]
    /\ UNCHANGED <<nextId, infoReqs, disk, cleanups, call>>

\* ---- the event loop runs the oldest callback handed over for task t
loop_step(t) ==
    /\ t \in DOMAIN loopq
    /\ loopq[t] # <<>>
    /\ LET item == Head(loopq[t]) IN
           IF item.type = "update"
           THEN /\ tasks' = update_task(tasks, t, item.update)
                /\ UNCHANGED <<wf, running>>
           ELSE IF wf[t].kind = "single"
                THEN IF wf[t].pc = "info"
                     THEN single_after_info(t, item)
                     ELSE single_after_download(t, item)
                ELSE IF wf[t].pc = "info"
                     THEN playlist_after_info(t, item)
                     ELSE playlist_after_download(t, item)
    /\ loopq' = [loopq EXCEPT ![t] = Tail(@)]
    /\ UNCHANGED <<nextId, infoReqs, disk, cleanups, call>>

\* POST /api/info that takes the playlist branch when the request says so
get_video_info_route_trusts_is_playlist(request) ==
    LET url == request.url IN
    /\ is_valid_youtube_url(url)
    /\ Cardinality(infoReqs) < MaxInfoReqs
    /\ infoReqs' = infoReqs \cup
            {[id |-> Cardinality(infoReqs) + 1, url |-> url,
              lookup |-> IF request.is_playlist THEN "get_playlist_info"
                         ELSE "get_video_info"]}
    /\ UNCHANGED <<tasks, nextId, wf, running, loopq, disk, cleanups, call>>

\* ---- POST /api/info, up to the await of the engine call.  An invalid URL
\* raises HTTPException before any engine call.  A pending request keeps the
\* URL and the engine lookup its handler awaits.
get_video_info_route(request) ==
    LET url == request.url IN
    /\ is_valid_youtube_url(url)
    /\ Cardinality(infoReqs) < MaxInfoReqs
    /\ infoReqs' = infoReqs \cup
            {[id |-> Cardinality(infoReqs) + 1, url |-> url,
              lookup |-> IF HasListMarker(url) THEN "get_playlist_info"
                         ELSE "get_video_info"]}
    /\ UNCHANGED <<tasks, nextId, wf, running, loopq, disk, cleanups, call>>

\* ---- POST /api/info: the response, found telling whether the engine call
\* of a valid URL returned anything
get_video_info_response(request, found) ==
    LET url == request.url IN
    IF ~is_valid_youtube_url(url)
    THEN Response("info", 400, "Invalid YouTube URL", 0)
    ELSE IF HasListMarker(url)
    THEN IF found THEN Response("info", 200, "is_playlist=True", 0)
         ELSE Response("info", 404, "Playlist not found or empty", 0)
    ELSE IF found THEN Response("info", 200, "is_playlist=False", 0)
         ELSE Response("info", 404, "Video not found", 0)

\* The engine call of a POST info request ends and the handler answers.
get_video_info_route_returns(r) ==
    /\ r \in infoReqs
    /\ infoReqs' = infoReqs \ {r}
    /\ UNCHANGED <<tasks, nextId, wf, running, loopq, disk, cleanups, call>>

\* ---- GET /api/task/{task_id}: the response
get_task_status_response(reg, task_id) ==
    [Response("task", 200, "", task_id) EXCEPT !.proj = Some(get_task(reg, task_id))]

\* ---- GET /api/task/{task_id}
get_task_status(task_id) ==
    /\ get_task_status_response(tasks, task_id).code = 200
    /\ UNCHANGED <<tasks, nextId, wf, running, infoReqs, loopq, disk, cleanups, call>>

\* files[file_index] of a Python list: a negative index counts from the end
PyIndexOk(files, i) == -Len(files) <= i /\ i < Len(files)
PyIndex(files, i) == IF i >= 0 THEN files[i + 1] ELSE files[Len(files) + i + 1]

\* ---- GET /api/download-single/{task_id}/{file_index}: the response
download_single_response(reg, dsk, task_id, file_index) ==
    LET task  == get_task(reg, task_id)
        files == get_task_files(reg, task_id)
        base  == [Response("download-single", 200, "", task_id)
                     EXCEPT !.index = file_index]
    IN  IF task.status # COMPLETED
        THEN [base EXCEPT !.code = 400, !.detail = "Task not completed"]
        ELSE IF files = <<>> \/ file_index >= Len(files)
        THEN [base EXCEPT !.code = 404, !.detail = "File not found"]
        ELSE IF ~PyIndexOk(files, file_index)
        \* IndexError, not handled: the framework answers 500
        THEN [base EXCEPT !.code = 500, !.detail = "Internal Server Error"]
        ELSE IF PyIndex(files, file_index) \notin dsk
        THEN [base EXCEPT !.code = 404, !.detail = "File not found"]
        ELSE [base EXCEPT !.media_type = "audio/mpeg",
                          !.file = Some(PyIndex(files, file_index)),
                          !.sched = Some(DOWNLOAD_SINGLE_DELAY)]

\* ListingLinks with the link made of idx instead of idx - 1
RECURSIVE ListingLinks_one_based(_, _, _)
ListingLinks_one_based(files, dsk, idx) ==
    IF idx > Len(files) THEN <<>>
    ELSE (IF files[idx] \in dsk THEN <<idx>> ELSE <<>>)
            \o ListingLinks_one_based(files, dsk, idx + 1)

\* The links of the HTML listing: for idx, file_path in enumerate(files, 1),
\* a link to file index idx - 1 when the file exists.
RECURSIVE ListingLinks(_, _, _)
ListingLinks(files, dsk, idx) ==
    IF idx > Len(files) THEN <<>>
    ELSE (IF files[idx] \in dsk THEN <<idx - 1>> ELSE <<>>)
            \o ListingLinks(files, dsk, idx + 1)

\* ---- GET /api/download-file/{task_id}: the response
download_file_response(reg, dsk, task_id) ==
    LET task  == get_task(reg, task_id)
        files == get_task_files(reg, task_id)
        base  == Response("download-file", 200, "", task_id)
    IN  IF task.status # COMPLETED
        THEN [base EXCEPT !.code = 400, !.detail = "Task not completed"]
        ELSE IF files = <<>>
        THEN [base EXCEPT !.code = 404, !.detail = "No files found"]
        ELSE IF Len(files) = 1
        THEN IF files[1] \notin dsk
             THEN [base EXCEPT !.code = 404, !.detail = "File not found: name"]
             ELSE [base EXCEPT !.media_type = "audio/mpeg", !.file = Some(files[1]),
                               !.sched = Some(DOWNLOAD_FILE_DELAY)]
        ELSE [base EXCEPT !.media_type = "text/html",
                          !.links = ListingLinks(files, dsk, 1)]

\* background_tasks.add_task(cleanup_file, file_path, delay): the cleanup
\* tasks after response r; the task starts its sleep when the response is out.
\* Two pending tasks for the same file with the same delay and the same sleep
\* left behave as one.
Scheduled(r) ==
    IF IsSome(r.sched)
    THEN cleanups \cup {[path |-> Val(r.file), delay |-> Val(r.sched),
                          remaining |-> Val(r.sched), waited |-> 0]}
    ELSE cleanups

\* ---- GET /api/download-single/{task_id}/{file_index}.  A request that is
\* answered with an error changes nothing.
download_single_from_playlist(task_id, file_index) ==
    LET r == download_single_response(tasks, disk, task_id, file_index) IN
    /\ IsSome(r.sched)
    /\ cleanups' = Scheduled(r)
    /\ Cardinality(cleanups') <= MaxCleanups
    /\ UNCHANGED <<tasks, nextId, wf, running, infoReqs, loopq, disk, call>>

\* ---- GET /api/download-file/{task_id}.  A request that is answered with an
\* error or with the HTML listing changes nothing.
download_file(task_id) ==
    LET r == download_file_response(tasks, disk, task_id) IN
    /\ IsSome(r.sched)
    /\ cleanups' = Scheduled(r)
    /\ Cardinality(cleanups') <= MaxCleanups
    /\ UNCHANGED <<tasks, nextId, wf, running, infoReqs, loopq, disk, call>>

\* ---- cleanup_file(file_path, delay)
\* A pending cleanup task: the file, its delay, what is left of its
\* asyncio.sleep(delay), and the seconds since the response that scheduled it
\* (waited, kept for the properties and capped at the longest delay).
\* Time passes: up to the moment the next sleeping cleanup task wakes.
tick ==
    LET sleeping == {c \in cleanups : c.remaining > 0} IN
    /\ sleeping # {}
    /\ LET d == CHOOSE x \in {c.remaining : c \in sleeping} :
                    \A c \in sleeping : x <= c.remaining
       IN  cleanups' = {[c EXCEPT !.remaining = IF @ > d THEN @ - d ELSE 0,
                                  !.waited = Min(DOWNLOAD_SINGLE_DELAY, @ + d)] :
                            c \in cleanups}
    /\ UNCHANGED <<tasks, nextId, wf, running, infoReqs, loopq, disk, call>>

\* cleanup_file without the await of asyncio.sleep(delay)
cleanup_file_no_sleep(c) ==
    /\ c \in cleanups
    /\ disk' = disk \ {c.path}
    /\ cleanups' = cleanups \ {c}
    /\ UNCHANGED <<tasks, nextId, wf, running, infoReqs, loopq, call>>

\* cleanup_file after its sleep: unlink the file if it exists
cleanup_file(c) ==
    /\ c \in cleanups
    /\ c.remaining = 0
    /\ disk' = disk \ {c.path}
    /\ cleanups' = cleanups \ {c}
    /\ UNCHANGED <<tasks, nextId, wf, running, infoReqs, loopq, call>>

\* ---------------------------------------------------------- specification
\* The task ids a request may name: every id handed out, and 0, an id the
\* registry never held.  The file indexes a request may name.
TaskTargets == 0..nextId
FileIndexes == (-(MaxSel + 1))..MaxSel

\* A POST request that creates a task.
Submit ==
    \/ \E request \in DownloadRequests(DownloadUrls) : download_video(request)
    \/ \E video_ids \in Selections : download_playlist_route(video_ids)

\* Every other step of the system.
Run ==
    \/ \E request \in DownloadRequests(Urls) : get_video_info_route(request)
    \/ \E r \in infoReqs : get_video_info_route_returns(r)
    \/ \E t \in TaskTargets : get_task_status(t)
    \/ \E t \in TaskTargets, i \in FileIndexes : download_single_from_playlist(t, i)
    \/ \E t \in TaskTargets : download_file(t)
    \/ \E t \in DOMAIN wf : single_start(t)
    \/ \E t \in DOMAIN wf : playlist_start(t)
    \/ \E t \in running, ok \in BOOLEAN : extract_info_returns(t, ok)
    \/ \E t \in running, d \in HookEvents : progress_hook(t, d)
    \/ \E t \in running, outcome \in DownloadOutcomes : download_returns(t, outcome)
    \/ \E t \in DOMAIN loopq : loop_step(t)
    \/ \E t \in DOMAIN wf : sleep_done(t)
    \/ tick
    \/ \E c \in cleanups : cleanup_file(c)

\* The system with up to MaxTasks tasks, submitted at any time.
Next == (nextId < MaxTasks /\ Submit) \/ Run

Spec == Init /\ [][Next]_vars

\* The system serving one download task: one POST download or POST
\* download-playlist, with any number of the other requests around it.
SoloNext == (nextId = 0 /\ Submit) \/ Run

SoloSpec == Init /\ [][SoloNext]_vars

\* The ids the registry may hold.
TaskIds == 1..MaxTasks

\* What the scheduling guarantees for the workflow of task t: the event loop
\* starts every background task, runs every callback handed to it and fires
\* every timer; every engine call in a worker thread returns or raises.
WorkflowFairness(t) ==
    /\ WF_vars(single_start(t))
    /\ WF_vars(playlist_start(t))
    /\ WF_vars(\E ok \in BOOLEAN : extract_info_returns(t, ok))
    /\ WF_vars(\E outcome \in DownloadOutcomes : download_returns(t, outcome))
    /\ WF_vars(loop_step(t))
    /\ WF_vars(sleep_done(t))

SoloLiveSpec == SoloSpec /\ \A t \in TaskIds : WorkflowFairness(t)

\* ---------------------------------------------------- the registry on its own
\* The TaskManager called directly, in any order, by any caller: create_task,
\* update_task, get_task, get_task_files and cleanup_task (which no handler
\* calls).  It holds one record at a time: a record is created when the one
\* before it has been removed.
\* The arguments of the update_task calls: nothing passed, each keyword alone
\* with two values, the falsy one included, and all keywords together.
UpdateArgs ==
    {NoUpdate}
        \cup {[NoUpdate EXCEPT !.status = Some(st)] : st \in {PROCESSING, COMPLETED}}
        \cup {[NoUpdate EXCEPT !.progress = Some(pr)] : pr \in {0, 500}}
        \cup {[NoUpdate EXCEPT !.message = Some(Msg(text, 0, 0))] :
                    text \in {"", "Download completed!"}}
        \cup {[NoUpdate EXCEPT !.completed_videos = Some(n)] : n \in {0, 1}}
        \cup {[NoUpdate EXCEPT !.file_path = Some(path)] :
                    path \in {<<>>, FinalFile(<<"a">>)}}
        \cup {[status |-> Some(COMPLETED), progress |-> Some(500),
               message |-> Some(Msg("Download completed!", 0, 0)),
               completed_videos |-> Some(1), file_path |-> Some(FinalFile(<<"a">>))]}

create_task_call(total_videos) ==
    LET task_id == nextId + 1 IN
    /\ nextId < MaxTasks
    /\ DOMAIN tasks = {}
    /\ nextId' = task_id
    /\ tasks' = create_task(tasks, task_id, total_videos)
    /\ call' = [fn |-> "create_task", arg |-> <<total_videos>>, ret |-> Some(task_id)]
    /\ UNCHANGED <<wf, running, infoReqs, loopq, disk, cleanups>>

update_task_call(task_id, u) ==
    /\ tasks' = update_task(tasks, task_id, u)
    /\ \A t \in DOMAIN tasks' : Len(tasks'[t].file_paths) <= MaxSel
    /\ call' = [fn |-> "update_task", arg |-> <<task_id, u>>, ret |-> None]
    /\ UNCHANGED <<nextId, wf, running, infoReqs, loopq, disk, cleanups>>

get_task_call(task_id) ==
    /\ call' = [fn |-> "get_task", arg |-> <<task_id>>,
                ret |-> Some(get_task(tasks, task_id))]
    /\ UNCHANGED <<tasks, nextId, wf, running, infoReqs, loopq, disk, cleanups>>

get_task_files_call(task_id) ==
    /\ call' = [fn |-> "get_task_files", arg |-> <<task_id>>,
                ret |-> Some(get_task_files(tasks, task_id))]
    /\ UNCHANGED <<tasks, nextId, wf, running, infoReqs, loopq, disk, cleanups>>

cleanup_task_call(task_id) ==
    /\ tasks' = cleanup_task(tasks, task_id)
    /\ call' = [fn |-> "cleanup_task", arg |-> <<task_id>>, ret |-> None]
    /\ UNCHANGED <<nextId, wf, running, infoReqs, loopq, disk, cleanups>>

RegistryNext ==
    \/ \E total_videos \in 1..MaxSel : create_task_call(total_videos)
    \/ \E t \in TaskTargets, u \in UpdateArgs : update_task_call(t, u)
    \/ \E t \in TaskTargets : get_task_call(t)
    \/ \E t \in TaskTargets : get_task_files_call(t)
    \/ \E t \in TaskTargets : cleanup_task_call(t)

RegistrySpec == Init /\ [][RegistryNext]_vars

\* ------------------------------------------- sanitize_filename on its own
\* The characters of the titles: a letter, the two kinds of ASCII whitespace,
\* an invalid character, and non-ASCII characters with and without a
\* decomposition.
TitleChars == {"a", " ", "tab", ":", "e_acute", "cjk", "fi_lig", "nbsp"}

\* Short titles, and long titles: a padding that leaves one character to the
\* limit of filename[:200], then a short title.
ShortTitles == UNION {[1..n -> TitleChars] : n \in 0..MaxTitleLen}
TitlePad == [i \in 1..(FILENAME_MAX - 1) |-> "a"]
Titles == ShortTitles \cup {TitlePad \o title : title \in ShortTitles}

SanitizeInit ==
    /\ call \in {[fn |-> "sanitize_filename", arg |-> <<title>>, ret |-> None] :
                    title \in Titles}
    /\ Started

\* sanitize_filename(title) returns
sanitize_filename_call ==
    /\ call.fn = "sanitize_filename" /\ call.ret = None
    /\ call' = [call EXCEPT !.ret = Some(sanitize_filename(call.arg[1]))]
    /\ UNCHANGED <<tasks, nextId, wf, running, infoReqs, loopq, disk, cleanups>>

\* the result is passed to sanitize_filename again
sanitize_filename_again ==
    /\ call.fn = "sanitize_filename" /\ IsSome(call.ret)
    /\ call' = [call EXCEPT !.arg = <<Val(call.ret)>>, !.ret = None]
    /\ UNCHANGED <<tasks, nextId, wf, running, infoReqs, loopq, disk, cleanups>>

SanitizeNext == sanitize_filename_call \/ sanitize_filename_again

SanitizeSpec == SanitizeInit /\ [][SanitizeNext]_vars

\* ------------------------------------------------- the validators on their own
\* The URLs: a scheme, a host with a path, and up to MaxParams query
\* parameters, the first after "?", the others after "&".
HostPaths ==
    {<<"youtube.com/watch">>, <<"example.com/watch">>, <<"youtube.com/playlist">>,
     <<"youtu.be/", "abc123">>, <<"youtube.com/embed/", "abc123">>,
     <<"youtube.com/v/", "abc123">>, <<"example.com/">>}
Params ==
    {<<"v=", "abc123">>, <<"v=">>, <<"list=", "PL123">>, <<"list=", "PL456">>,
     <<"list=">>, <<"t=", "42">>}

RECURSIVE Query(_, _)
Query(params, k) ==
    IF k > Len(params) THEN <<>>
    ELSE <<IF k = 1 THEN "?" ELSE "&">> \o params[k] \o Query(params, k + 1)

ValidatorUrls ==
    {<<"https://www.">> \o hp \o Query(params, 1) :
        hp \in HostPaths, params \in UNION {[1..n -> Params] : n \in 0..MaxParams}}

ValidatorInit ==
    /\ call \in {[fn |-> "", arg |-> <<url>>, ret |-> None] : url \in ValidatorUrls}
    /\ Started

extract_video_id_call ==
    /\ call' = [call EXCEPT !.fn = "extract_video_id",
                            !.ret = Some(extract_video_id(call.arg[1]))]
    /\ UNCHANGED <<tasks, nextId, wf, running, infoReqs, loopq, disk, cleanups>>

extract_playlist_id_call ==
    /\ call' = [call EXCEPT !.fn = "extract_playlist_id",
                            !.ret = Some(extract_playlist_id(call.arg[1]))]
    /\ UNCHANGED <<tasks, nextId, wf, running, infoReqs, loopq, disk, cleanups>>

is_valid_youtube_url_call ==
    /\ call' = [call EXCEPT !.fn = "is_valid_youtube_url",
                            !.ret = Some(is_valid_youtube_url(call.arg[1]))]
    /\ UNCHANGED <<tasks, nextId, wf, running, infoReqs, loopq, disk, cleanups>>

ValidatorNext ==
    extract_video_id_call \/ extract_playlist_id_call \/ is_valid_youtube_url_call

ValidatorSpec == ValidatorInit /\ [][ValidatorNext]_vars

\* ------------------------------------------- cleanup_old_files on its own
\* retention_seconds = settings.FILE_RETENTION_HOURS * 3600
retention_seconds == FILE_RETENTION_HOURS * 3600

\* An entry of the download directory as the sweep meets it: a regular file
\* or not, its age in seconds at the time of the sweep (at the retention
\* limit, or one second beyond it), and whether unlink() raises on it.
DirEntries ==
    [is_file : BOOLEAN, age : {retention_seconds, retention_seconds + 1},
     unlink_fails : BOOLEAN]

\* The directory in the order download_dir.glob("*") yields it.
Directories == UNION {[1..n -> DirEntries] : n \in 0..MaxEntries}

\* The for loop from entry i on, deleted being the entries unlinked so far.
\* An exception of unlink() leaves the loop for the except clause, which logs
\* it; the function then returns.
RECURSIVE SweepFrom(_, _, _)
SweepFrom(entries, i, deleted) ==
    IF i > Len(entries)
    THEN [deleted |-> deleted, examined |-> Len(entries), raised |-> FALSE]
    ELSE LET e == entries[i] IN
         IF e.is_file /\ e.age > retention_seconds
         THEN IF e.unlink_fails
              THEN [deleted |-> deleted, examined |-> i, raised |-> FALSE]
              ELSE SweepFrom(entries, i + 1, deleted \cup {i})
         ELSE SweepFrom(entries, i + 1, deleted)

cleanup_old_files(entries) == SweepFrom(entries, 1, {})

CleanupInit ==
    /\ call \in {[fn |-> "cleanup_old_files", arg |-> <<entries>>, ret |-> None] :
                    entries \in Directories}
    /\ Started

\* lifespan: cleanup_old_files() at startup
cleanup_old_files_call ==
    /\ call.fn = "cleanup_old_files" /\ call.ret = None
    /\ call' = [call EXCEPT !.ret = Some(cleanup_old_files(call.arg[1]))]
    /\ UNCHANGED <<tasks, nextId, wf, running, infoReqs, loopq, disk, cleanups>>

CleanupSpec == CleanupInit /\ [][cleanup_old_files_call]_vars

\* ------------------------------------------------------------------ claims
Terminal == {COMPLETED, FAILED}

\* C1: at most one external media operation (a metadata extraction or a
\* download call) is executing at any instant, system-wide: the operations
\* running in worker threads never outnumber the workers of the service's
\* single-worker executor.
C1_AtMostOneMediaOperation ==
    Cardinality(running) + Cardinality(infoReqs) <= executor_max_workers

\* C2: the status of a task only moves pending -> processing -> completed or
\* failed; once it is completed or failed no later step changes it.
C2_StatusMonotone ==
    [][\A t \in DOMAIN tasks :
            LET a == tasks[t].status
                b == tasks'[t].status
            IN  \/ a = b
                \/ a = PENDING /\ b = PROCESSING
                \/ a = PROCESSING /\ b \in Terminal]_vars

\* A single-video task that went pending -> processing -> completed, its
\* workflow having returned.
C2_Witness ==
    \E t \in DOMAIN tasks :
        /\ wf[t].kind = "single" /\ wf[t].pc = "done"
        /\ tasks[t].status = COMPLETED

\* C3: in every reachable state the completed count of a task is at most its
\* total count.
C3_CompletedWithinTotal ==
    \A t \in DOMAIN tasks : tasks[t].completed_videos <= tasks[t].total_videos

\* A playlist task of two selected ids, the same id twice, with every item
\* completed.
C3_Witness ==
    \E t \in DOMAIN tasks :
        /\ wf[t].kind = "playlist"
        /\ Len(wf[t].video_ids) = 2
        /\ wf[t].video_ids[1] = wf[t].video_ids[2]
        /\ tasks[t].completed_videos = 2
        /\ tasks[t].total_videos = 2

\* C4: the progress stored for a task never decreases: every step leaves it
\* greater than or equal to what it was.
C4_ProgressNeverDecreases ==
    [][\A t \in DOMAIN tasks : tasks'[t].progress >= tasks[t].progress]_vars

\* C5: every task created by POST download or POST download-playlist
\* eventually has status completed or failed, given that every engine call
\* returns or raises; and a workflow never returns, with or without an error
\* of the engine, leaving its task pending or processing.
C5_EveryTaskTerminates ==
    /\ \A t \in TaskIds :
            (t \in DOMAIN tasks) ~> (t \in DOMAIN tasks /\ tasks[t].status \in Terminal)
    /\ [](\A t \in DOMAIN wf : wf[t].pc = "done" => tasks[t].status \in Terminal)

\* A single-video task whose download call raised: the workflow has returned
\* and the task is failed with the message of the top-level handler.
C5_Witness ==
    \E t \in DOMAIN tasks :
        /\ wf[t].kind = "single" /\ wf[t].pc = "done"
        /\ tasks[t].status = FAILED
        /\ tasks[t].message.text = "Error: "

\* The positions of the selection whose item produced its output file.
ProducedAt(w) == {i \in 1..Len(w.produced) : w.produced[i]}

\* The output file of item i of the selection of a playlist workflow.
ItemFile(w, i) == FinalFile(sanitize_filename(EngineTitle(WatchUrl(w.video_ids[i]))))

\* The output files of the items of 1..n that produced theirs, in the order
\* of the selection.
RECURSIVE ProducedFiles(_, _)
ProducedFiles(w, n) ==
    IF n = 0 THEN <<>>
    ELSE ProducedFiles(w, n - 1)
            \o (IF n \in ProducedAt(w) THEN <<ItemFile(w, n)>> ELSE <<>>)

\* C6: a playlist download of N ids in which k >= 1 items produce their file
\* and the others fail ends completed with completed_videos = k,
\* total_videos = N, progress 100 and the k file paths in the order of the
\* selection; every item of the selection was handled, whatever failed
\* before it.
C6_PartialSuccess ==
    \A t \in DOMAIN tasks :
        LET w == wf[t]
            N == Len(w.video_ids)
            k == Cardinality(ProducedAt(w))
        IN  (w.kind = "playlist" /\ w.pc = "done" /\ k >= 1) =>
                /\ Len(w.produced) = N
                /\ tasks[t].status = COMPLETED
                /\ tasks[t].completed_videos = k
                /\ tasks[t].total_videos = N
                /\ tasks[t].progress = 1000
                /\ Len(tasks[t].file_paths) = k
                /\ tasks[t].file_paths = ProducedFiles(w, N)

\* A finished playlist of two ids whose first item failed and whose second
\* item produced its file.
C6_Witness ==
    \E t \in DOMAIN tasks :
        /\ wf[t].kind = "playlist" /\ wf[t].pc = "done"
        /\ wf[t].produced = <<FALSE, TRUE>>

\* C7: a playlist download of N >= 1 ids in which every item fails ends failed
\* with the message "No videos were downloaded successfully", completed_videos
\* 0 and no recorded file.
C7_AllItemsFail ==
    \A t \in DOMAIN tasks :
        LET w == wf[t] IN
        (w.kind = "playlist" /\ w.pc = "done" /\ Len(w.video_ids) >= 1
                /\ ProducedAt(w) = {}) =>
            /\ Len(w.produced) = Len(w.video_ids)
            /\ tasks[t].status = FAILED
            /\ tasks[t].message.text = "No videos were downloaded successfully"
            /\ tasks[t].completed_videos = 0
            /\ tasks[t].file_paths = <<>>

\* A finished playlist of two ids whose items both failed.
C7_Witness ==
    \E t \in DOMAIN tasks :
        /\ wf[t].kind = "playlist" /\ wf[t].pc = "done"
        /\ wf[t].produced = <<FALSE, FALSE>>

\* C8: GET download-file for a completed task with exactly one recorded file
\* still on disk returns that file as audio/mpeg and schedules its deletion
\* with a delay of 10 seconds; for a task that is pending, processing, failed
\* or unknown it returns a client error, no file and schedules nothing; and a
\* file is only ever deleted by a cleanup task that has slept its whole delay
\* since the response that scheduled it.
C8_DownloadFileSingle ==
    /\ [](\A t \in TaskTargets :
            LET r == download_file_response(tasks, disk, t)
                files == get_task_files(tasks, t)
            IN  /\ (/\ t \in DOMAIN tasks
                    /\ tasks[t].status = COMPLETED
                    /\ Len(files) = 1
                    /\ files[1] \in disk) =>
                        /\ r.code = 200
                        /\ r.media_type = "audio/mpeg"
                        /\ r.file = Some(files[1])
                        /\ r.sched = Some(10)
                /\ (t \notin DOMAIN tasks
                        \/ tasks[t].status \in {PENDING, PROCESSING, FAILED}) =>
                        /\ r.code \in 400..499
                        /\ r.file = None
                        /\ r.sched = None
                        /\ ~ENABLED download_file(t))
    /\ [][/\ \A p \in disk \ disk' :
                \E c \in cleanups \ cleanups' :
                    c.path = p /\ c.remaining = 0 /\ c.waited >= c.delay
          /\ \A c \in cleanups' \ cleanups :
                c.waited = 0 => c.remaining = c.delay /\ c.delay > 0]_vars

\* The cleanup task scheduled by download-file has slept its 10 seconds and
\* the file it is about to delete is still on disk.
C8_Witness ==
    \E c \in cleanups :
        /\ c.delay = DOWNLOAD_FILE_DELAY
        /\ c.remaining = 0 /\ c.waited >= 10
        /\ c.path \in disk

\* C9: GET download-single on a completed task answers 404 "File not found",
\* serves no file and schedules no deletion for every file index outside
\* 0 .. (number of recorded files - 1).
C9_IndexOutsideRangeIs404 ==
    \A t \in DOMAIN tasks, i \in FileIndexes :
        LET r == download_single_response(tasks, disk, t, i) IN
        (tasks[t].status = COMPLETED /\ ~(0 <= i /\ i < Len(tasks[t].file_paths))) =>
            /\ r.code = 404
            /\ r.detail = "File not found"
            /\ r.file = None
            /\ r.sched = None

\* The positions of the recorded files of task t that are on disk.
ExistingPositions(t) ==
    {j \in 1..Len(tasks[t].file_paths) : tasks[t].file_paths[j] \in disk}

\* C10: GET download-file for a completed task with two or more recorded
\* files returns an HTML listing with exactly one link per recorded file that
\* is on disk; the index of a link is the 0-based position of its file in the
\* recorded list, and download-single with that index serves that file.
C10_ListingLinks ==
    \A t \in DOMAIN tasks :
        LET files == tasks[t].file_paths
            r == download_file_response(tasks, disk, t)
        IN  (tasks[t].status = COMPLETED /\ Len(files) >= 2) =>
                /\ r.code = 200
                /\ r.media_type = "text/html"
                /\ r.file = None
                /\ Len(r.links) = Cardinality(ExistingPositions(t))
                /\ \A j \in ExistingPositions(t) :
                        Cardinality({n \in 1..Len(r.links) : r.links[n] = j - 1}) = 1
                /\ \A n \in 1..Len(r.links) :
                        /\ r.links[n] + 1 \in ExistingPositions(t)
                        /\ download_single_response(tasks, disk, t, r.links[n]).file
                                = Some(files[r.links[n] + 1])

\* A completed task with two different recorded files, one still on disk and
\* one deleted after it was served.
C10_Witness ==
    \E t \in DOMAIN tasks :
        /\ tasks[t].status = COMPLETED
        /\ Len(tasks[t].file_paths) = 2
        /\ tasks[t].file_paths[1] # tasks[t].file_paths[2]
        /\ Cardinality(ExistingPositions(t)) = 1

\* C11: get_task on an id the registry does not hold, never created or removed
\* by cleanup_task, answers status failed, message "Task not found", progress
\* 0 and totals 0, the task route answering 200 with it; and a get_task call
\* leaves the registry as it was, so no record appears for that id.
C11_GetTaskUnknown ==
    /\ [](\A t \in TaskTargets :
            t \notin DOMAIN tasks =>
                /\ get_task(tasks, t) =
                        [task_id |-> t, status |-> FAILED,
                         message |-> Msg("Task not found", 0, 0), progress |-> 0,
                         total_videos |-> 0, completed_videos |-> 0]
                /\ get_task_status_response(tasks, t).code = 200
                /\ get_task_status_response(tasks, t).proj = Some(get_task(tasks, t)))
    /\ [][call'.fn = "get_task" => tasks' = tasks]_vars

\* get_task was called on the id of a task that was created and then removed,
\* and answered "Task not found".
C11_Witness ==
    /\ call.fn = "get_task"
    /\ call.arg[1] \in 1..nextId
    /\ call.arg[1] \notin DOMAIN tasks
    /\ Val(call.ret).message.text = "Task not found"

\* C13: update_task on an existing task sets exactly the fields passed to it,
\* whatever their values (progress 0 and an empty message included), appends
\* a passed file path at the end of the file list, and leaves every other
\* field and every other task as they were.
C13_UpdateChangesExactlyPassedFields ==
    \A t \in DOMAIN tasks, u \in UpdateArgs :
        LET old == tasks[t]
            expected ==
                [status |-> IF IsSome(u.status) THEN Val(u.status) ELSE old.status,
                 progress |-> IF IsSome(u.progress) THEN Val(u.progress)
                              ELSE old.progress,
                 message |-> IF IsSome(u.message) THEN Val(u.message) ELSE old.message,
                 total_videos |-> old.total_videos,
                 completed_videos |->
                    IF IsSome(u.completed_videos) THEN Val(u.completed_videos)
                    ELSE old.completed_videos,
                 file_paths |->
                    IF IsSome(u.file_path) THEN Append(old.file_paths, Val(u.file_path))
                    ELSE old.file_paths]
        IN  update_task(tasks, t, u) = [tasks EXCEPT ![t] = expected]

\* C14: update_task with an id the registry does not hold, never created or
\* removed by cleanup_task, changes nothing: no record appears for the id and
\* every existing task stays as it was.
C14_UpdateUnknownIsNoOp ==
    /\ [](\A t \in TaskTargets, u \in UpdateArgs :
            t \notin DOMAIN tasks => update_task(tasks, t, u) = tasks)
    /\ [][(call'.fn = "update_task" /\ call'.arg[1] \notin DOMAIN tasks)
            => (tasks' = tasks /\ call'.ret = None)]_vars

\* update_task, with every keyword passed, was called on the id of a removed
\* task while the registry held another task.
C14_Witness ==
    /\ call.fn = "update_task"
    /\ call.arg[1] \in 1..nextId
    /\ call.arg[1] \notin DOMAIN tasks
    /\ IsSome(call.arg[2].status) /\ IsSome(call.arg[2].file_path)
    /\ DOMAIN tasks # {}

\* C12: POST download with a valid URL creates a task with total_videos 1 and
\* answers with its projection: status pending, progress 0, message "Task
\* created"; the registry still shows exactly that when the handler is done,
\* the workflow being scheduled and not started, and it shows it as long as
\* the workflow has not started.  POST download with an invalid URL answers
\* 400 and creates no task.
C12_DownloadAnswersPending ==
    /\ [](\A url \in Urls :
            LET r == download_video_response(tasks, DownloadRequest(url, FALSE),
                                             nextId + 1) IN
            IF is_valid_youtube_url(url)
            THEN /\ r.code = 200
                 /\ r.proj = Some([task_id |-> nextId + 1, status |-> PENDING,
                                   message |-> Msg("Task created", 0, 0),
                                   progress |-> 0, total_videos |-> 1,
                                   completed_videos |-> 0])
            ELSE /\ r.code = 400
                 /\ r.proj = None
                 /\ ~ENABLED download_video(DownloadRequest(url, FALSE)))
    /\ [](\A t \in DOMAIN wf :
            (wf[t].kind = "single" /\ wf[t].pc = "scheduled") =>
                /\ tasks[t].status = PENDING
                /\ tasks[t].progress = 0
                /\ tasks[t].message.text = "Task created"
                /\ tasks[t].total_videos = 1)
    /\ [][\A t \in DOMAIN tasks' \ DOMAIN tasks :
            wf'[t].kind = "single" =>
                /\ t = nextId + 1 /\ nextId' = t
                /\ wf'[t].pc = "scheduled"
                /\ t \notin running'
                /\ Some(get_task(tasks', t))
                        = download_video_response(
                              tasks, DownloadRequest(wf'[t].url, FALSE), t).proj
                /\ \A o \in DOMAIN tasks : tasks'[o] = tasks[o]]_vars

\* A task created by POST download whose workflow has not started: the
\* registry shows it pending.
C12_Witness ==
    \E t \in DOMAIN tasks :
        /\ wf[t].kind = "single" /\ wf[t].pc = "scheduled"
        /\ tasks[t].status = PENDING /\ tasks[t].total_videos = 1

\* C15: a file is served once: when a file-serving endpoint has handed a
\* recorded file to a client, so that its deletion is scheduled, no request to
\* download-file or download-single is answered with that file again.
C15_ServedFileNotServedAgain ==
    \A c \in cleanups, t \in TaskTargets :
        /\ download_file_response(tasks, disk, t).file # Some(c.path)
        /\ \A i \in FileIndexes :
                download_single_response(tasks, disk, t, i).file # Some(c.path)

\* C16: for every title sanitize_filename returns ASCII characters only, none
\* of < > : " / \ | ? *, at most 200 of them, with no whitespace at either
\* end, and applied to its own result it returns that result.
C16_SanitizeFilename ==
    (call.fn = "sanitize_filename" /\ IsSome(call.ret)) =>
        LET r == Val(call.ret) IN
        /\ \A i \in 1..Len(r) : r[i] \in AsciiChars /\ r[i] \notin InvalidChars
        /\ Len(r) <= 200
        /\ r # <<>> => (~IsSpace(r[1]) /\ ~IsSpace(r[Len(r)]))
        /\ sanitize_filename(r) = r

\* A title longer than 200 characters whose result was cut at 200 and then
\* lost the space the cut left at its end.
C16_Witness ==
    /\ call.fn = "sanitize_filename"
    /\ call.arg[1] = TitlePad \o <<" ", "a">>
    /\ Len(call.arg[1]) > 200
    /\ call.ret = Some(TitlePad)

C18_IsPlaylistIgnored ==
    /\ [](\A url \in Urls, found \in BOOLEAN :
            get_video_info_response(DownloadRequest(url, TRUE), found)
                = get_video_info_response(DownloadRequest(url, FALSE), found))
    /\ [](\A url \in Urls :
            download_video_response(tasks, DownloadRequest(url, TRUE), nextId + 1)
                = download_video_response(tasks, DownloadRequest(url, FALSE), nextId + 1))
    /\ [](\A r \in infoReqs :
            r.lookup = IF HasListMarker(r.url) THEN "get_playlist_info"
                       ELSE "get_video_info")
    /\ [][\A r \in infoReqs' \ infoReqs :
            /\ tasks' = tasks
            /\ get_video_info_route(DownloadRequest(r.url, TRUE))
            /\ get_video_info_route(DownloadRequest(r.url, FALSE))]_vars
    /\ [][\A url \in Urls :
            download_video(DownloadRequest(url, TRUE))
                <=> download_video(DownloadRequest(url, FALSE))]_vars

\* A POST info request for a video URL, sent with is_playlist true or false,
\* awaits the video lookup.
C18_Witness ==
    \E r \in infoReqs : r.url = UrlVideo /\ r.lookup = "get_video_info"

\* C19: during a single-video download a 'downloading' event whose percent is
\* at least 5 points away from the percent of the last update the callback
\* issued (0 at the start) issues one registry update, progress 10 + 0.7 *
\* percent, and becomes the last percent; a 'downloading' event with a smaller
\* change, or with a percent string float() rejects, issues nothing, leaves
\* the registry and the last percent alone and leaves the download running;
\* a 'finished' event issues the progress 80 update whatever the last percent.
C19_HookThrottle ==
    [][\A t \in DOMAIN wf, d \in HookEvents :
        progress_hook(t, d) =>
            LET last == wf[t].last_percent
                Quiet == /\ loopq' = loopq /\ tasks' = tasks
                         /\ wf'[t].last_percent = last
                         /\ wf'[t].pc = "download" /\ t \in running'
                Issued(u) == /\ loopq'[t] = Append(loopq[t], UpdateItem(t, u))
                             /\ tasks' = tasks
                             /\ wf'[t].pc = "download" /\ t \in running'
            IN  IF d.status = "finished"
                THEN /\ Issued([NoUpdate EXCEPT
                            !.progress = Some(800),
                            !.message = Some(Msg("Converting to MP3...", 0, 0))])
                     /\ wf'[t].last_percent = last
                ELSE IF \E p \in Percents : d.percent_str = <<" ", PercentText(p), "%">>
                THEN LET p == CHOOSE x \in Percents :
                                  d.percent_str = <<" ", PercentText(x), "%">>
                     IN  IF p - last >= 5 \/ last - p >= 5
                         THEN /\ Issued([NoUpdate EXCEPT
                                     !.progress = Some(100 + 7 * p),
                                     !.message = Some(Msg("Downloading: %", p, 0))])
                              /\ wf'[t].last_percent = p
                         ELSE Quiet
                ELSE Quiet]_vars

\* The callback has issued an update for 8 percent and then one for 3
\* percent, exactly 5 points below it.
C19_Witness ==
    \E t \in DOMAIN wf :
        /\ wf[t].kind = "single" /\ wf[t].hooks = 2
        /\ wf[t].last_percent = 3

\* C20: the updates the progress callback issues for a task are applied in
\* the order of the callback's invocations.  Whatever else happens (polling
\* reads, steps of other tasks), an update issued for a task goes behind every
\* update issued for it before and not yet applied, the pending updates are
\* never reordered, and the one that is applied is the oldest of them.
C20_CallbackUpdatesInOrder ==
    [][\A t \in DOMAIN loopq' :
        IF t \notin DOMAIN loopq THEN loopq'[t] = <<>>
        ELSE LET q == loopq[t] IN
             /\ Len(loopq'[t]) > Len(q) =>
                    /\ Len(loopq'[t]) = Len(q) + 1
                    /\ SubSeq(loopq'[t], 1, Len(q)) = q
             /\ Len(loopq'[t]) = Len(q) => loopq'[t] = q
             /\ Len(loopq'[t]) < Len(q) =>
                    /\ loopq'[t] = Tail(q)
                    /\ Head(q).type = "update" =>
                           tasks' = update_task(tasks, t, Head(q).update)]_vars

\* Two tasks are in the registry and two different updates of the callback of
\* one of them are pending, the other task having a callback pending too.
C20_Witness ==
    \E t \in DOMAIN loopq, o \in DOMAIN loopq :
        /\ t # o
        /\ Len(loopq[t]) >= 2
        /\ loopq[t][1].type = "update" /\ loopq[t][2].type = "update"
        /\ loopq[t][1] # loopq[t][2]
        /\ loopq[o] # <<>>

\* C21: the step in which a single-video workflow returns leaves its task in
\* the state its outcome determines, and the task keeps that state.  Resumed
\* with no metadata, before any download call: failed, "Failed to fetch video
\* information", no file.  Resumed with the error the download call raised:
\* failed, a message starting "Error: ", no file.  After the settle wait, with
\* the expected file present: completed, progress 100, completed_videos 1 and
\* that one path recorded; with the file absent: failed, "File conversion
\* failed", no file.
C21_SingleFinalState ==
    [][\A t \in DOMAIN wf :
        wf[t].kind = "single" =>
            /\ (wf[t].pc = "info" /\ wf'[t].pc = "done") =>
                   /\ Head(loopq[t]).result = "none"
                   /\ tasks'[t].status = FAILED
                   /\ tasks'[t].message = Msg("Failed to fetch video information", 0, 0)
                   /\ tasks'[t].file_paths = <<>>
                   /\ tasks'[t].completed_videos = 0
            /\ (wf[t].pc = "info" /\ Len(loopq'[t]) < Len(loopq[t])
                    /\ Head(loopq[t]).result = "none") => wf'[t].pc = "done"
            /\ (wf[t].pc = "download" /\ wf'[t].pc = "done") =>
                   /\ Head(loopq[t]).result = "raise"
                   /\ tasks'[t].status = FAILED
                   /\ tasks'[t].message.text = "Error: "
                   /\ tasks'[t].file_paths = <<>>
                   /\ tasks'[t].completed_videos = 0
            /\ (wf[t].pc = "sleep" /\ wf'[t].pc = "done") =>
                   IF FinalFile(wf[t].filename) \in disk
                   THEN /\ tasks'[t].status = COMPLETED
                        /\ tasks'[t].progress = 1000
                        /\ tasks'[t].completed_videos = 1
                        /\ tasks'[t].file_paths = <<FinalFile(wf[t].filename)>>
                   ELSE /\ tasks'[t].status = FAILED
                        /\ tasks'[t].message = Msg("File conversion failed", 0, 0)
                        /\ tasks'[t].file_paths = <<>>
                        /\ tasks'[t].completed_videos = 0
            /\ wf[t].pc = "done" => tasks'[t] = tasks[t]]_vars

\* A single-video workflow has returned after a download call that left no
\* file: the task is failed with "File conversion failed".
C21_Witness ==
    \E t \in DOMAIN wf :
        /\ wf[t].kind = "single" /\ wf[t].pc = "done"
        /\ tasks[t].status = FAILED
        /\ tasks[t].message = Msg("File conversion failed", 0, 0)
        /\ tasks[t].file_paths = <<>>

\* C22: when cleanup_old_files has returned it has raised nothing and examined
\* every entry; every regular file older than the retention time whose own
\* unlink did not fail is deleted, also when the unlink of another file
\* failed; no entry that is not such a file is deleted.
C22_SweepDeletesEveryOldFile ==
    (call.fn = "cleanup_old_files" /\ IsSome(call.ret)) =>
        LET entries == call.arg[1]
            r == Val(call.ret)
        IN  /\ ~r.raised
            /\ r.examined = Len(entries)
            /\ \A i \in 1..Len(entries) :
                   (entries[i].is_file /\ entries[i].age > FILE_RETENTION_HOURS * 3600
                        /\ ~entries[i].unlink_fails) => i \in r.deleted
            /\ \A i \in r.deleted :
                   entries[i].is_file /\ entries[i].age > FILE_RETENTION_HOURS * 3600

\* C23: in every reachable state the number of file paths recorded for a task
\* equals its completed_videos, and what a polling client is answered agrees
\* with what a file-serving request reads.
C23_FilesMatchCompleted ==
    \A t \in DOMAIN tasks :
        /\ Len(tasks[t].file_paths) = tasks[t].completed_videos
        /\ Val(get_task_status_response(tasks, t).proj).completed_videos
               = Len(get_task_files(tasks, t))

\* A playlist workflow between two items: the first item is recorded, path
\* and count, and the second is still being worked on.
C23_Witness ==
    \E t \in DOMAIN tasks :
        /\ wf[t].kind = "playlist" /\ wf[t].pc \notin {"scheduled", "done"}
        /\ Len(wf[t].video_ids) = 2
        /\ tasks[t].completed_videos = 1
        /\ Len(tasks[t].file_paths) = 1

\* C24: in every reachable state a task whose status is completed has
\* progress 100 and at least one recorded file path, no update of the progress
\* callback being left to be applied after the final update; GET download-file
\* on it does not answer 404 "No files found".
C24_CompletedIsFull ==
    \A t \in DOMAIN tasks :
        tasks[t].status = COMPLETED =>
            /\ tasks[t].progress = 1000
            /\ tasks[t].file_paths # <<>>
            /\ \A i \in 1..Len(loopq[t]) : loopq[t][i].type # "update"
            /\ ~(/\ download_file_response(tasks, disk, t).code = 404
                 /\ download_file_response(tasks, disk, t).detail = "No files found")

\* A single-video task is completed, its workflow has returned, and GET
\* download-file answers with the file.
C24_Witness ==
    \E t \in DOMAIN tasks :
        /\ wf[t].kind = "single" /\ wf[t].pc = "done"
        /\ tasks[t].status = COMPLETED /\ tasks[t].progress = 1000
        /\ loopq[t] = <<>>
        /\ download_file_response(tasks, disk, t).code = 200

\* C25: tasks are isolated in the registry.  A step that creates a task gives
\* it an id no task had before, stores the new record under it and leaves
\* every existing record unchanged; no record is ever removed; a step that
\* changes the record of a task is a step of that task's own workflow or of
\* its callback's updates, and it leaves the record, the workflow and the
\* pending callbacks of every other task unchanged.
C25_TasksIsolated ==
    [][/\ DOMAIN tasks \subseteq DOMAIN tasks'
       /\ \A t \in DOMAIN tasks' \ DOMAIN tasks :
              /\ t \notin 1..nextId /\ nextId' = t
              /\ DOMAIN tasks' = DOMAIN tasks \cup {t}
              /\ tasks'[t].status = PENDING /\ tasks'[t].progress = 0
              /\ tasks'[t].completed_videos = 0 /\ tasks'[t].file_paths = <<>>
              /\ \A o \in DOMAIN tasks : tasks'[o] = tasks[o]
       /\ \A t \in DOMAIN tasks :
              tasks'[t] # tasks[t] =>
                  /\ wf'[t] # wf[t] \/ loopq'[t] # loopq[t]
                  /\ \A o \in DOMAIN tasks \ {t} :
                         /\ tasks'[o] = tasks[o]
                         /\ wf'[o] = wf[o]
                         /\ loopq'[o] = loopq[o]]_vars

\* Two single-video tasks: the callback of one has had its update for 8
\* percent applied while the other is completed.
C25_Witness ==
    \E a \in DOMAIN tasks, b \in DOMAIN tasks :
        /\ a # b
        /\ wf[a].kind = "single" /\ wf[a].pc = "download"
        /\ tasks[a].progress = 100 + 7 * 8
        /\ tasks[b].status = COMPLETED /\ tasks[b].progress = 1000

====
